---- MODULE Spec2Model ----
(***************************************************************************)
(* Model of validate_hal.py, the source tree auditor of the Intel Ethernet *)
(* HAL.  One run of validate_hal_implementation() is a straight line of    *)
(* checks over a file tree; the tree is the input and standard output is   *)
(* the only result.                                                        *)
(*                                                                         *)
(* A path is the sequence of its components, so os.path.basename is the    *)
(* last component and the parent directory is the prefix.  A file's text   *)
(* is the set of fragments occurring in it; each fragment carries the      *)
(* searched substrings it contains and the number of matches re.findall    *)
(* finds in it for each of the three patterns.  Every test the auditor     *)
(* makes ('needle in content', len(re.findall(...))) is independent of     *)
(* the order of the fragments.                                             *)
(*                                                                         *)
(* The tree does not change during a run (the auditor is a one-shot,       *)
(* single-threaded pass), and print() itself never fails.                  *)
(***************************************************************************)
EXTENDS Integers, Sequences, FiniteSets, TLC

\* Largest number of fragments in a file whose text is drawn freely.
MaxFragments == 4

----------------------------------------------------------------------------
(* The fixed lists of validate_hal_implementation *)

required_dirs ==
    << <<"include">>, <<"src", "common">>, <<"src", "windows">>,
       <<"src", "hal">>, <<"examples">> >>

required_files ==
    << <<"include", "intel_ethernet_hal.h">>,
       <<"src", "common", "intel_device.c">>,
       <<"src", "windows", "intel_ndis.c">>,
       <<"src", "hal", "intel_hal.c">>,
       <<"examples", "hal_device_info.c">>,
       <<"CMakeLists.txt">>,
       <<"README.md">> >>

source_files ==
    << <<"src", "common", "intel_device.c">>,
       <<"src", "windows", "intel_ndis.c">>,
       <<"src", "hal", "intel_hal.c">> >>

header_file == <<"include", "intel_ethernet_hal.h">>

i219_file == <<"src", "common", "intel_device.c">>

Range(s) == {s[k] : k \in 1..Len(s)}

Dirs == Range(required_dirs)

Files == Range(required_files)

\* The files the auditor opens.
Inspected == {header_file} \cup Range(source_files)

basename(filepath) == <<filepath[Len(filepath)]>>

dirname(filepath) == SubSeq(filepath, 1, Len(filepath) - 1)

----------------------------------------------------------------------------
(* File texts *)

Fragment(text, has, hal, inc, impl) ==
    [text |-> text, has |-> has, hal_functions |-> hal,
     includes |-> inc, implementations |-> impl]

HeaderFragments ==
    { Fragment("#ifndef INTEL_ETHERNET_HAL_H", {"#ifndef"}, 0, 0, 0),
      Fragment("#pragma once", {"#pragma once"}, 0, 0, 0),
      Fragment("extern \"C\" {", {"extern \"C\""}, 0, 0, 0),
      Fragment("int intel_hal_init(void);", {}, 1, 0, 0),
      Fragment("int intel_hal_open(int id); void intel_hal_close (int id);",
               {}, 2, 0, 0),
      Fragment("extern int intel_hal_version;", {}, 0, 0, 0) }

SourceFragments ==
    { Fragment("#include \"intel_ethernet_hal.h\"", {"#include"}, 0, 1, 0),
      Fragment("#include HAL_CONFIG_H", {"#include"}, 0, 0, 0),
      Fragment("int intel_device_init(void) {", {}, 0, 0, 1),
      Fragment("void intel_lock(void) { } void intel_unlock(void) { }",
               {}, 0, 0, 2),
      Fragment("#ifdef INTEL_HAL_WINDOWS", {"INTEL_HAL_WINDOWS"}, 0, 0, 0),
      Fragment("#ifdef WIN32", {"WIN32"}, 0, 0, 0),
      Fragment("return INTEL_HAL_ERROR;", {"INTEL_HAL_ERROR"}, 0, 0, 0),
      Fragment("set_last_error(1);", {"set_last_error"}, 0, 0, 0),
      Fragment("{ 0x0DC7 },", {"0x0DC7"}, 0, 0, 0),
      Fragment("INTEL_FAMILY_I219,", {"INTEL_FAMILY_I219"}, 0, 0, 0),
      Fragment("INTEL_CAP_BASIC_1588,", {"INTEL_CAP_BASIC_1588"}, 0, 0, 0),
      Fragment("INTEL_CAP_MDIO,", {"INTEL_CAP_MDIO"}, 0, 0, 0) }

FragmentsOf(path) ==
    IF path = header_file THEN HeaderFragments ELSE SourceFragments

\* The text of a complete, conformant file of the HAL.
ReferenceText(path) ==
    IF path = header_file
    THEN {f \in HeaderFragments :
            f.text \in {"#ifndef INTEL_ETHERNET_HAL_H", "extern \"C\" {",
                        "int intel_hal_init(void);"}}
    ELSE {f \in SourceFragments :
            f.text \in {"#include \"intel_ethernet_hal.h\"",
                        "int intel_device_init(void) {",
                        "{ 0x0DC7 },", "INTEL_FAMILY_I219,",
                        "INTEL_CAP_BASIC_1588,", "INTEL_CAP_MDIO,"}}

\* needle in content
Contains(content, needle) == \E f \in content : needle \in f.has

RECURSIVE Sum(_, _)
Sum(S, field) ==
    IF S = {} THEN 0
    ELSE LET f == CHOOSE x \in S : TRUE
         IN  f[field] + Sum(S \ {f}, field)

\* len(re.findall(pattern, content))
findall(pattern, content) == Sum(content, pattern)

----------------------------------------------------------------------------
(* The file tree *)

FileState(exists, utf8, locale, text) ==
    [exists |-> exists, utf8 |-> utf8, locale |-> locale, text |-> text]

Missing == FileState(FALSE, FALSE, FALSE, {})

VARIABLES
    dir,                \* dir[d]: os.path.exists(d) for a required directory
    file,               \* file[p]: the state of a required file
    pc,                 \* position in validate_hal_implementation
    idx,                \* index of the next entry of the list being walked
    all_files_present,  \* the aggregate flag
    out                 \* the lines printed so far

vars == <<dir, file, pc, idx, all_files_present, out>>

\* A file exists only inside an existing directory.
TreeOK(d, f) ==
    \A p \in Files :
        f[p].exists /\ dirname(p) \in Dirs => d[dirname(p)]

\* Every tree: any directories and files missing, any inspected file
\* unreadable; texts are the reference text or empty.
TreeStates(p) ==
    {Missing} \cup
    (IF p \notin Inspected
     THEN {FileState(TRUE, TRUE, TRUE, {})}
     ELSE {st \in {FileState(TRUE, u, l, t) :
                     u \in BOOLEAN, l \in BOOLEAN,
                     t \in {ReferenceText(p), {}}} :
             p # i219_file => st.locale = st.utf8})

Present(p, t) == FileState(TRUE, TRUE, TRUE, t)

Texts(p) ==
    {t \in SUBSET FragmentsOf(p) : Cardinality(t) <= MaxFragments}

IndexOf(p) == CHOOSE k \in 1..Len(required_files) : required_files[k] = p

InitTree ==
    /\ \E s \in TreeStates(required_files[1]) \X TreeStates(required_files[2])
              \X TreeStates(required_files[3]) \X TreeStates(required_files[4])
              \X TreeStates(required_files[5]) \X TreeStates(required_files[6])
              \X TreeStates(required_files[7]) :
         file = [p \in Files |-> s[IndexOf(p)]]
    /\ dir \in [Dirs -> BOOLEAN]
    /\ TreeOK(dir, file)

\* A complete tree in which one inspected file has an arbitrary text.
InitText ==
    /\ dir = [d \in Dirs |-> TRUE]
    /\ \E q \in Inspected : \E t \in Texts(q) :
         file = [p \in Files |->
                   IF p = q THEN Present(p, t)
                   ELSE Present(p, IF p \in Inspected
                                   THEN ReferenceText(p) ELSE {})]

Init ==
    /\ InitTree \/ InitText
    /\ pc = "start"
    /\ idx = 1
    /\ all_files_present = TRUE
    /\ out = << >>

----------------------------------------------------------------------------
(* Printed lines *)

\* One line of standard output: the status icon, the message, the path or
\* base name and the count interpolated into it, and the exception text.
Line(icon, text, path, n, err) ==
    [icon |-> icon, text |-> text, path |-> path, n |-> n, err |-> err]

Plain(text) == Line("", text, << >>, 0, "")

Blank == Plain("")

Ok(text, path) == Line("ok", text, path, 0, "")

Count(text, n, path) == Line("ok", text, path, n, "")

Warn(text, path) == Line("warn", text, path, 0, "")

Fail(text, path, err) == Line("fail", text, path, 0, err)

----------------------------------------------------------------------------
(* The checks.  A call yields the lines it prints, its return value and    *)
(* the exception it lets escape ("" when it returns normally).             *)

Return(lines, ret) == [out |-> lines, ret |-> ret, raised |-> ""]

Raise(lines, err) == [out |-> lines, ret |-> FALSE, raised |-> err]

\* os.path.exists(path) for a required file
exists(path) == file[path].exists

\* with open(path, 'r', encoding=...) as f: content = f.read()
open_read(path, encoding) ==
    LET f == file[path]
    IN  IF ~f.exists
        THEN [err |-> "No such file or directory", content |-> {}]
        ELSE IF ~(IF encoding = "utf-8" THEN f.utf8 ELSE f.locale)
        THEN [err |-> "cannot read or decode", content |-> {}]
        ELSE [err |-> "", content |-> f.text]

\* Mutant: the final 'return True' is forgotten, so a found file yields None.
check_file_exists_noreturn(filepath) ==
    IF ~exists(filepath)
    THEN Return(<<Fail("Missing file: ", filepath, "")>>, FALSE)
    ELSE Return(<<Ok("Found: ", filepath)>>, FALSE)

check_file_exists(filepath) ==
    IF ~exists(filepath)
    THEN Return(<<Fail("Missing file: ", filepath, "")>>, FALSE)
    ELSE Return(<<Ok("Found: ", filepath)>>, TRUE)

\* Mutant: no except clause, the error of open() escapes.
check_header_syntax_noexcept(filepath) ==
    LET r == open_read(filepath, "utf-8")
    IN  IF r.err # ""
        THEN Raise(<< >>, r.err)
        ELSE Return(<<Ok("Header guards found in ", basename(filepath)),
                      Ok("C++ compatibility in ", basename(filepath)),
                      Count("Found {} HAL functions in ",
                            findall("hal_functions", r.content),
                            basename(filepath))>>, TRUE)

\* Mutant: 'and' for 'or' in the guard test.
check_header_syntax_and(filepath) ==
    LET r == open_read(filepath, "utf-8")
        content == r.content
        guards ==
            IF Contains(content, "#ifndef") /\ Contains(content, "#pragma once")
            THEN Ok("Header guards found in ", basename(filepath))
            ELSE Warn("No header guards in ", basename(filepath))
        wrapper ==
            IF Contains(content, "extern \"C\"")
            THEN Ok("C++ compatibility in ", basename(filepath))
            ELSE Warn("No C++ compatibility wrapper in ", basename(filepath))
    IN  IF r.err # ""
        THEN Return(<<Fail("Error reading ", filepath, r.err)>>, FALSE)
        ELSE Return(<<guards, wrapper,
                      Count("Found {} HAL functions in ",
                            findall("hal_functions", content),
                            basename(filepath))>>, TRUE)

check_header_syntax(filepath) ==
    LET r == open_read(filepath, "utf-8")
        content == r.content
        guards ==
            IF Contains(content, "#ifndef") \/ Contains(content, "#pragma once")
            THEN Ok("Header guards found in ", basename(filepath))
            ELSE Warn("No header guards in ", basename(filepath))
        wrapper ==
            IF Contains(content, "extern \"C\"")
            THEN Ok("C++ compatibility in ", basename(filepath))
            ELSE Warn("No C++ compatibility wrapper in ", basename(filepath))
        functions == findall("hal_functions", content)
    IN  IF r.err # ""
        THEN Return(<<Fail("Error reading ", filepath, r.err)>>, FALSE)
        ELSE Return(<<guards, wrapper,
                      Count("Found {} HAL functions in ", functions,
                            basename(filepath))>>, TRUE)

check_source_structure(filepath) ==
    LET r == open_read(filepath, "utf-8")
        content == r.content
        includes ==
            IF Contains(content, "#include")
            THEN <<Count("Found {} includes in ",
                         findall("includes", content), basename(filepath))>>
            ELSE << >>
        functions ==
            <<Count("Found {} function implementations in ",
                    findall("implementations", content), basename(filepath))>>
        windows ==
            IF Contains(content, "INTEL_HAL_WINDOWS") \/ Contains(content, "WIN32")
            THEN <<Ok("Windows-specific code found in ", basename(filepath))>>
            ELSE << >>
        errors ==
            IF Contains(content, "INTEL_HAL_ERROR")
               \/ Contains(content, "set_last_error")
            THEN <<Ok("Error handling found in ", basename(filepath))>>
            ELSE << >>
    IN  IF r.err # ""
        THEN Return(<<Fail("Error reading ", filepath, r.err)>>, FALSE)
        ELSE Return(includes \o functions \o windows \o errors, TRUE)

\* The four literals of the I219 check with the lines reporting them.
i219_markers ==
    << <<"0x0DC7", "I219-LM (0x0DC7) support found">>,
       <<"INTEL_FAMILY_I219", "I219 family support found">>,
       <<"INTEL_CAP_BASIC_1588", "IEEE 1588 capability support found">>,
       <<"INTEL_CAP_MDIO", "MDIO capability support found">> >>

\* Mutant: the four tests are chained with elif, the first hit ends them.
RECURSIVE MarkerLines_elif(_, _)
MarkerLines_elif(content, k) ==
    IF k > Len(i219_markers) THEN << >>
    ELSE IF Contains(content, i219_markers[k][1])
         THEN <<Ok(i219_markers[k][2], << >>)>>
         ELSE MarkerLines_elif(content, k + 1)

RECURSIVE MarkerLines(_, _)
MarkerLines(content, k) ==
    IF k > Len(i219_markers) THEN << >>
    ELSE (IF Contains(content, i219_markers[k][1])
          THEN <<Ok(i219_markers[k][2], << >>)>>
          ELSE << >>) \o MarkerLines(content, k + 1)

\* Mutant: no except clause around the I219 check.
check_i219_support_noexcept ==
    LET r == open_read(i219_file, "locale")
    IN  IF r.err # ""
        THEN Raise(<< >>, r.err)
        ELSE Return(MarkerLines(r.content, 1), TRUE)

\* The try block of the I219 check; the file is opened in the locale's
\* encoding.
check_i219_support ==
    LET r == open_read(i219_file, "locale")
    IN  IF r.err # ""
        THEN Return(<<Fail("Error checking I219 support: ", << >>, r.err)>>,
                    FALSE)
        ELSE Return(MarkerLines(r.content, 1), TRUE)

----------------------------------------------------------------------------
(* validate_hal_implementation, one action per step *)

\* The lines that open the sections of the report.
DirsHead == Line("folder", "Checking directory structure...", << >>, 0, "")

FilesHead == Line("page", "Checking required files...", << >>, 0, "")

HeaderHead == Line("magnifier", "Analyzing header file...", << >>, 0, "")

SourcesHead == Line("magnifier", "Analyzing source files...", << >>, 0, "")

I219Head == Line("target", "Checking I219 support...", << >>, 0, "")

SummaryHead == Line("chart", "Validation Summary", << >>, 0, "")

NextStepsHead == Line("target", "Next Steps:", << >>, 0, "")

\* An exception that escapes a check ends the run with a traceback.
Traceback(err) == Line("traceback", "Traceback (most recent call last)",
                       << >>, 0, err)

Banner ==
    /\ pc = "start"
    /\ out' = out \o <<Plain("Intel Ethernet HAL - Code Validation"),
                       Plain("===================================="),
                       Blank,
                       DirsHead>>
    /\ pc' = "dirs"
    /\ idx' = 1
    /\ UNCHANGED <<dir, file, all_files_present>>

\* Mutant: the loop breaks at the first missing directory.
CheckDirectory_break ==
    /\ pc = "dirs"
    /\ idx <= Len(required_dirs)
    /\ LET directory == required_dirs[idx]
       IN  IF dir[directory]
           THEN /\ out' = Append(out, Ok("Directory: ", directory))
                /\ idx' = idx + 1
           ELSE /\ out' = Append(out, Fail("Missing directory: ", directory, ""))
                /\ idx' = Len(required_dirs) + 1
    /\ UNCHANGED <<dir, file, pc, all_files_present>>

CheckDirectory ==
    /\ pc = "dirs"
    /\ idx <= Len(required_dirs)
    /\ LET directory == required_dirs[idx]
       IN  out' = Append(out, IF dir[directory]
                              THEN Ok("Directory: ", directory)
                              ELSE Fail("Missing directory: ", directory, ""))
    /\ idx' = idx + 1
    /\ UNCHANGED <<dir, file, pc, all_files_present>>

BeginFiles ==
    /\ pc = "dirs"
    /\ idx > Len(required_dirs)
    /\ out' = out \o <<Blank, FilesHead>>
    /\ all_files_present' = TRUE
    /\ pc' = "files"
    /\ idx' = 1
    /\ UNCHANGED <<dir, file>>

\* Mutant: the flag is assigned the last result instead of accumulating.
CheckRequiredFile_last ==
    /\ pc = "files"
    /\ idx <= Len(required_files)
    /\ LET r == check_file_exists(required_files[idx])
       IN  /\ out' = out \o r.out
           /\ all_files_present' = r.ret
    /\ idx' = idx + 1
    /\ UNCHANGED <<dir, file, pc>>

CheckRequiredFile ==
    /\ pc = "files"
    /\ idx <= Len(required_files)
    /\ LET r == check_file_exists(required_files[idx])
       IN  /\ out' = out \o r.out
           /\ all_files_present' = IF ~r.ret THEN FALSE ELSE all_files_present
    /\ idx' = idx + 1
    /\ UNCHANGED <<dir, file, pc>>

\* Mutant: the result of the header check is folded into the flag.
AnalyzeHeader_flag ==
    /\ pc = "files"
    /\ idx > Len(required_files)
    /\ LET r == check_header_syntax(header_file)
       IN  /\ out' = out \o <<Blank, HeaderHead>> \o r.out
                         \o <<Blank, SourcesHead>>
           /\ all_files_present' = (all_files_present /\ r.ret)
    /\ pc' = "sources"
    /\ idx' = 1
    /\ UNCHANGED <<dir, file>>

AnalyzeHeader ==
    /\ pc = "files"
    /\ idx > Len(required_files)
    /\ LET r == check_header_syntax(header_file)
           head == <<Blank, HeaderHead>>
       IN  IF r.raised # ""
           THEN /\ out' = out \o head \o r.out \o <<Traceback(r.raised)>>
                /\ pc' = "crashed"
           ELSE /\ out' = out \o head \o r.out \o <<Blank, SourcesHead>>
                /\ pc' = "sources"
    /\ idx' = 1
    /\ UNCHANGED <<dir, file, all_files_present>>

\* Mutant: the os.path.exists test before the source check is dropped.
AnalyzeSource_noguard ==
    /\ pc = "sources"
    /\ idx <= Len(source_files)
    /\ LET r == check_source_structure(source_files[idx])
       IN  out' = out \o r.out \o <<Blank>>
    /\ idx' = idx + 1
    /\ UNCHANGED <<dir, file, pc, all_files_present>>

AnalyzeSource ==
    /\ pc = "sources"
    /\ idx <= Len(source_files)
    /\ LET source_file == source_files[idx]
           r == check_source_structure(source_file)
       IN  IF ~exists(source_file)
           THEN UNCHANGED <<out, pc>>
           ELSE IF r.raised # ""
           THEN /\ out' = out \o r.out \o <<Traceback(r.raised)>>
                /\ pc' = "crashed"
           ELSE /\ out' = out \o r.out \o <<Blank>>
                /\ pc' = pc
    /\ idx' = idx + 1
    /\ UNCHANGED <<dir, file, all_files_present>>

CheckI219Support ==
    /\ pc = "sources"
    /\ idx > Len(source_files)
    /\ LET r == check_i219_support
           head == <<I219Head>>
       IN  IF r.raised # ""
           THEN /\ out' = out \o head \o r.out \o <<Traceback(r.raised)>>
                /\ pc' = "crashed"
           ELSE /\ out' = out \o head \o r.out \o <<Blank>>
                /\ pc' = "summary"
    /\ UNCHANGED <<dir, file, idx, all_files_present>>

Summary ==
    /\ pc = "summary"
    /\ out' = out \o
         <<SummaryHead,
           Plain("===================="),
           IF all_files_present
           THEN Ok("All required files present", << >>)
           ELSE Fail("Some required files missing", << >>, ""),
           Ok("HAL architecture looks correct", << >>),
           Ok("Windows NDIS integration implemented", << >>),
           Ok("I219 hardware support confirmed", << >>),
           Ok("Cross-platform structure in place", << >>),
           Blank>>
    /\ pc' = "next_steps"
    /\ UNCHANGED <<dir, file, idx, all_files_present>>

NextSteps ==
    /\ pc = "next_steps"
    /\ out' = out \o
         <<NextStepsHead,
           Plain("1. Install a C compiler (MinGW, Visual Studio, or MSYS2)"),
           Plain("2. Run build_windows.bat to compile the HAL"),
           Plain("3. Test with hal_device_info.exe on your I219 hardware"),
           Plain("4. Integrate as submodule into OpenAvnu project"),
           Blank>>
    /\ pc' = "done"
    /\ UNCHANGED <<dir, file, idx, all_files_present>>

Next ==
    \/ Banner
    \/ CheckDirectory
    \/ BeginFiles
    \/ CheckRequiredFile
    \/ AnalyzeHeader
    \/ AnalyzeSource
    \/ CheckI219Support
    \/ Summary
    \/ NextSteps

Spec == Init /\ [][Next]_vars

\* The run is never suspended: every step is taken.
FairSpec == Spec /\ WF_vars(Next)

TypeOK ==
    /\ pc \in {"start", "dirs", "files", "sources", "summary", "next_steps",
               "done", "crashed"}
    /\ idx \in 1..(Len(required_files) + 1)
    /\ all_files_present \in BOOLEAN

----------------------------------------------------------------------------
(* Reading the report *)

Printed(line) == \E k \in 1..Len(out) : out[k] = line

\* The position of a section head in the report.
Pos(line) == CHOOSE k \in 1..Len(out) : out[k] = line

\* The lines printed after one section head and before another.
Between(a, b) == SubSeq(out, Pos(a) + 1, Pos(b) - 1)

AllFilesExist == \A p \in Files : file[p].exists

AllDirsExist == \A d \in Dirs : dir[d]

PastFiles == pc \in {"sources", "summary", "next_steps", "done", "crashed"}

PastSummary == pc \in {"next_steps", "done"}

\* The line of the summary block that the aggregate flag selects.
SummaryLine == out[Pos(SummaryHead) + 2]

----------------------------------------------------------------------------
(* C1 *)

\* C1: the file presence check prints exactly one line per entry of
\* required_files, in list order, each about its entry and success-marked
\* iff the file exists; every entry is checked even after a missing one;
\* the aggregate flag is the conjunction of the existence results seen so
\* far, hence of all seven once the loop is over, and it alone selects the
\* summary line: 'All required files present' iff all seven exist.
C1_FilePresence ==
    /\ pc = "files" =>
         /\ Len(out) - Pos(FilesHead) = idx - 1
         /\ all_files_present =
              (\A k \in 1..(idx - 1) : file[required_files[k]].exists)
    /\ PastFiles =>
         LET report == Between(FilesHead, HeaderHead)
         IN  /\ Len(report) = Len(required_files) + 1
             /\ report[Len(report)] = Blank
             /\ \A k \in 1..Len(required_files) :
                  /\ report[k].path = required_files[k]
                  /\ report[k].icon \in {"ok", "fail"}
                  /\ report[k].icon = "ok" <=> file[required_files[k]].exists
             /\ all_files_present = AllFilesExist
    /\ PastSummary =>
         SummaryLine = IF AllFilesExist
                       THEN Ok("All required files present", << >>)
                       ELSE Fail("Some required files missing", << >>, "")

\* The first file is missing, the last one exists and is still reported,
\* and the summary says that files are missing.
C1_Witness ==
    /\ pc = "done"
    /\ ~file[required_files[1]].exists
    /\ Printed(Fail("Missing file: ", required_files[1], ""))
    /\ Printed(Ok("Found: ", required_files[7]))
    /\ SummaryLine = Fail("Some required files missing", << >>, "")

----------------------------------------------------------------------------
(* C5 *)

\* C5: the directory presence check prints exactly one line per entry of
\* required_dirs, in list order: 'Directory: d', success-marked, iff d
\* exists when it is checked, and the failure-marked 'Missing directory: d'
\* otherwise.
C5_DirectoryPresence ==
    /\ pc = "dirs" => Len(out) - Pos(DirsHead) = idx - 1
    /\ pc \notin {"start", "dirs"} =>
         LET report == Between(DirsHead, FilesHead)
         IN  /\ Len(report) = Len(required_dirs) + 1
             /\ report[Len(report)] = Blank
             /\ \A k \in 1..Len(required_dirs) :
                  report[k] = IF dir[required_dirs[k]]
                              THEN Ok("Directory: ", required_dirs[k])
                              ELSE Fail("Missing directory: ",
                                        required_dirs[k], "")

\* A missing directory before an existing one: both are reported.
C5_Witness ==
    /\ pc = "done"
    /\ ~dir[required_dirs[2]]
    /\ dir[required_dirs[5]]
    /\ Between(DirsHead, FilesHead)[2]
         = Fail("Missing directory: ", required_dirs[2], "")
    /\ Between(DirsHead, FilesHead)[5] = Ok("Directory: ", required_dirs[5])

----------------------------------------------------------------------------
(* C10 *)

\* The file exists and some open() of it succeeds.
Readable(p) == file[p].exists /\ (file[p].utf8 \/ file[p].locale)

\* C10: the file presence check tests existence and readability: a file's
\* line is success-marked, and the file counts as present in the aggregate
\* flag, iff the path exists and can be read.
C10_ExistsAndReadable ==
    PastFiles =>
        LET report == Between(FilesHead, HeaderHead)
        IN  /\ \A k \in 1..Len(required_files) :
                 report[k].icon = "ok" <=> Readable(required_files[k])
            /\ all_files_present = (\A p \in Files : Readable(p))

----------------------------------------------------------------------------
(* The summary block and the footer *)

PastHeader == pc \in {"sources", "summary", "next_steps", "done"}

PastI219 == pc \in {"summary", "next_steps", "done"}

StaticAssertions ==
    <<Ok("HAL architecture looks correct", << >>),
      Ok("Windows NDIS integration implemented", << >>),
      Ok("I219 hardware support confirmed", << >>),
      Ok("Cross-platform structure in place", << >>)>>

\* The summary block as a function of the set of existing required files.
SummaryFor(existing) ==
    <<SummaryHead, Plain("===================="),
      IF existing = Files
      THEN Ok("All required files present", << >>)
      ELSE Fail("Some required files missing", << >>, "")>>
    \o StaticAssertions \o <<Blank>>

Footer ==
    <<NextStepsHead,
      Plain("1. Install a C compiler (MinGW, Visual Studio, or MSYS2)"),
      Plain("2. Run build_windows.bat to compile the HAL"),
      Plain("3. Test with hal_device_info.exe on your I219 hardware"),
      Plain("4. Integrate as submodule into OpenAvnu project"),
      Blank>>

SummaryBlock == SubSeq(out, Pos(SummaryHead), Pos(SummaryHead) + 7)

Existing == {p \in Files : file[p].exists}

LastLines(s, n) == SubSeq(s, Len(s) - n + 1, Len(s))

----------------------------------------------------------------------------
(* C2 *)

\* Every read that fails has its error line in the report.
ReadErrorsReported ==
    /\ LET r == open_read(header_file, "utf-8")
       IN  r.err # "" => Printed(Fail("Error reading ", header_file, r.err))
    /\ \A k \in 1..Len(source_files) :
         LET r == open_read(source_files[k], "utf-8")
         IN  file[source_files[k]].exists /\ r.err # ""
               => Printed(Fail("Error reading ", source_files[k], r.err))
    /\ LET r == open_read(i219_file, "locale")
       IN  r.err # ""
             => Printed(Fail("Error checking I219 support: ", << >>, r.err))

\* C2: whatever is missing, unreadable or undecodable in the tree, the run
\* terminates with the summary block and the next-steps footer printed:
\* every read error has become an error line of the report and none has
\* escaped to end the run.
C2_AlwaysReachesSummary ==
    <>(/\ pc = "done"
       /\ Printed(SummaryHead)
       /\ \A k \in 1..Len(StaticAssertions) : Printed(StaticAssertions[k])
       /\ LastLines(out, Len(Footer)) = Footer
       /\ ReadErrorsReported)

\* The header is missing, a source file is unreadable and the I219 file
\* cannot be decoded in the locale's encoding; the run is over.
C2_Witness ==
    /\ pc = "done"
    /\ ~file[header_file].exists
    /\ file[source_files[2]].exists /\ ~file[source_files[2]].utf8
    /\ file[i219_file].exists /\ ~file[i219_file].locale
    /\ Printed(Fail("Error reading ", header_file, "No such file or directory"))
    /\ Printed(Fail("Error reading ", source_files[2], "cannot read or decode"))
    /\ Printed(Fail("Error checking I219 support: ", << >>,
                    "cannot read or decode"))

----------------------------------------------------------------------------
(* C3 *)

\* C3: the summary block is a function of the set of existing required
\* files alone, so that two runs over trees with the same existing files
\* print the same summary block, whatever the directories, the texts and
\* the read errors; the four static assertion lines are in every summary.
C3_SummaryDependsOnFilesOnly ==
    PastSummary => SummaryBlock = SummaryFor(Existing)

\* All files exist, but the header is unreadable and the I219 file has
\* none of the markers: the summary is that of a complete tree.
C3_Witness ==
    /\ pc = "done"
    /\ AllFilesExist
    /\ ~file[header_file].utf8
    /\ file[i219_file].locale /\ file[i219_file].text = {}
    /\ Printed(Fail("Error reading ", header_file, "cannot read or decode"))
    /\ SummaryBlock = SummaryFor(Files)

----------------------------------------------------------------------------
(* C4 *)

NoFailureLine == \A k \in 1..Len(out) : out[k].icon # "fail"

\* All directories and files are present, the header as the header check
\* reads it has a guard and the wrapper, and the I219 file as the I219
\* check reads it has the four markers.
CompleteTree ==
    /\ AllDirsExist
    /\ AllFilesExist
    /\ file[header_file].utf8
    /\ Contains(file[header_file].text, "#ifndef")
         \/ Contains(file[header_file].text, "#pragma once")
    /\ Contains(file[header_file].text, "extern \"C\"")
    /\ file[i219_file].locale
    /\ \A k \in 1..Len(i219_markers) :
         Contains(file[i219_file].text, i219_markers[k][1])

CleanReport ==
    /\ NoFailureLine
    /\ pc = "done" =>
         LastLines(out, 12) = <<Ok("All required files present", << >>)>>
                         \o StaticAssertions \o <<Blank>> \o Footer

\* C4 as stated: on a complete tree the report ends with 'All required
\* files present', the four static assertions and the four next steps, and
\* has no failure-marked line.
C4_AsStated == CompleteTree => CleanReport

\* C4, amended: the same, provided the three source files can be read as
\* UTF-8 text.
C4_EndToEnd ==
    CompleteTree /\ (\A k \in 1..Len(source_files) : file[source_files[k]].utf8)
        => CleanReport

C4_Witness ==
    /\ pc = "done"
    /\ CompleteTree
    /\ \A k \in 1..Len(source_files) : file[source_files[k]].utf8
    /\ Len(out) > 12
    /\ out[Len(out) - 11] = Ok("All required files present", << >>)

----------------------------------------------------------------------------
(* C6 *)

\* C6: when the I219 file does not exist, the I219 check catches the error
\* of open(): its section is exactly one error line, with no marker line,
\* and the summary block is the one the existing files determine.
C6_MissingFeatureFile ==
    ~file[i219_file].exists =>
        /\ pc # "crashed"
        /\ PastSummary =>
             /\ Between(I219Head, SummaryHead)
                  = <<Fail("Error checking I219 support: ", << >>,
                           "No such file or directory"), Blank>>
             /\ SummaryBlock = SummaryFor(Existing)

C6_Witness ==
    /\ pc = "done"
    /\ ~file[i219_file].exists
    /\ file[header_file].exists
    /\ Printed(Fail("Error checking I219 support: ", << >>,
                    "No such file or directory"))
    /\ SummaryBlock = SummaryFor(Existing)

----------------------------------------------------------------------------
(* C7 *)

FoundLine(k) == Ok(i219_markers[k][2], << >>)

\* C7: on a readable I219 file, the 'found' line of a literal is printed
\* iff the file contains that literal, whatever the other three; nothing
\* is printed for an absent literal; the lines keep the order of the four
\* literals.
C7_MarkersIndependent ==
    file[i219_file].exists /\ file[i219_file].locale /\ PastSummary =>
        LET section == Between(I219Head, SummaryHead)
            n == Len(section) - 1
        IN  /\ section[n + 1] = Blank
            /\ \A k \in 1..Len(i219_markers) :
                 (\E j \in 1..n : section[j] = FoundLine(k))
                   <=> Contains(file[i219_file].text, i219_markers[k][1])
            /\ \A j \in 1..n :
                 \E k \in 1..Len(i219_markers) : section[j] = FoundLine(k)
            /\ \A j1, j2 \in 1..n : \A k1, k2 \in 1..Len(i219_markers) :
                 j1 < j2 /\ section[j1] = FoundLine(k1)
                         /\ section[j2] = FoundLine(k2) => k1 < k2

\* 0x0DC7 and INTEL_CAP_BASIC_1588 are in the file, the other two are not.
C7_Witness ==
    /\ pc = "done"
    /\ file[i219_file].locale
    /\ Contains(file[i219_file].text, "0x0DC7")
    /\ ~Contains(file[i219_file].text, "INTEL_FAMILY_I219")
    /\ Contains(file[i219_file].text, "INTEL_CAP_BASIC_1588")
    /\ ~Contains(file[i219_file].text, "INTEL_CAP_MDIO")
    /\ Between(I219Head, SummaryHead) = <<FoundLine(1), FoundLine(3), Blank>>

----------------------------------------------------------------------------
(* C8 *)

\* C8: for a readable header the header check prints exactly three lines,
\* guard, wrapper, function count, in that order; the guard line is a pass
\* line iff the text contains '#ifndef' or '#pragma once' and a warning
\* otherwise; the wrapper line is a pass line iff the text contains
\* 'extern "C"' and a warning otherwise; no line is a failure, the check
\* returns True, and the aggregate flag stays the conjunction of the
\* existence results.
C8_HeaderLines ==
    file[header_file].exists /\ file[header_file].utf8 /\ PastHeader =>
        LET section == Between(HeaderHead, SourcesHead)
            text == file[header_file].text
            name == basename(header_file)
        IN  /\ Len(section) = 4
            /\ section[4] = Blank
            /\ section[1] =
                 IF Contains(text, "#ifndef") \/ Contains(text, "#pragma once")
                 THEN Ok("Header guards found in ", name)
                 ELSE Warn("No header guards in ", name)
            /\ section[2] =
                 IF Contains(text, "extern \"C\"")
                 THEN Ok("C++ compatibility in ", name)
                 ELSE Warn("No C++ compatibility wrapper in ", name)
            /\ section[3].icon = "ok"
            /\ section[3].text = "Found {} HAL functions in "
            /\ section[3].path = name
            /\ check_header_syntax(header_file).ret
            /\ all_files_present = AllFilesExist

\* '#pragma once' without '#ifndef' and without the wrapper.
C8_Witness ==
    /\ pc = "done"
    /\ file[header_file].utf8
    /\ Contains(file[header_file].text, "#pragma once")
    /\ ~Contains(file[header_file].text, "#ifndef")
    /\ ~Contains(file[header_file].text, "extern \"C\"")
    /\ Between(HeaderHead, SourcesHead)[1]
         = Ok("Header guards found in ", basename(header_file))
    /\ Between(HeaderHead, SourcesHead)[2]
         = Warn("No C++ compatibility wrapper in ", basename(header_file))

----------------------------------------------------------------------------
(* C9 *)

\* The positions in the source-analysis section of the lines about a file.
LinesAbout(section, f) ==
    {j \in 1..Len(section) : section[j].path \in {f, basename(f)}}

LinesWith(section, f, text) ==
    {j \in LinesAbout(section, f) : section[j].text = text}

\* C9 as stated: each of the three listed paths has, in the source-analysis
\* section, either an include count and a function-implementation count,
\* or an error line when the file cannot be read.
C9_AsStated ==
    PastI219 =>
        LET section == Between(SourcesHead, I219Head)
        IN  \A k \in 1..Len(source_files) :
              LET f == source_files[k]
              IN  \/ /\ LinesWith(section, f, "Found {} includes in ") # {}
                     /\ LinesWith(section, f,
                          "Found {} function implementations in ") # {}
                  \/ /\ open_read(f, "utf-8").err # ""
                     /\ LinesWith(section, f, "Error reading ") # {}

\* C9, amended: the source check is applied to each listed path that
\* exists; a path that does not exist has no line.  An existing file that
\* cannot be read has exactly its error line.  A readable one has exactly
\* one function-implementation count, 0 when the pattern never matches,
\* and an include count iff its text contains '#include'.
C9_ExistingSources ==
    PastI219 =>
        LET section == Between(SourcesHead, I219Head)
        IN  \A k \in 1..Len(source_files) :
              LET f == source_files[k]
                  about == LinesAbout(section, f)
                  incs == LinesWith(section, f, "Found {} includes in ")
                  impls == LinesWith(section, f,
                             "Found {} function implementations in ")
                  errs == LinesWith(section, f, "Error reading ")
              IN  /\ ~file[f].exists => about = {}
                  /\ file[f].exists /\ ~file[f].utf8 =>
                       /\ Cardinality(about) = 1
                       /\ about = errs
                       /\ \A j \in errs : section[j].icon = "fail"
                  /\ file[f].exists /\ file[f].utf8 =>
                       /\ errs = {}
                       /\ \A j \in about : section[j].icon = "ok"
                       /\ Cardinality(impls) = 1
                       /\ \A j \in impls :
                            section[j].n
                              = findall("implementations", file[f].text)
                       /\ Cardinality(incs)
                            = IF Contains(file[f].text, "#include")
                              THEN 1 ELSE 0
                       /\ \A j \in incs :
                            section[j].n = findall("includes", file[f].text)

\* A readable source file contains '#include' but no include the pattern
\* matches, and no function implementation: both counts are 0.
C9_Witness ==
    /\ pc = "done"
    /\ file[source_files[2]].exists /\ file[source_files[2]].utf8
    /\ Contains(file[source_files[2]].text, "#include")
    /\ findall("includes", file[source_files[2]].text) = 0
    /\ findall("implementations", file[source_files[2]].text) = 0
    /\ Printed(Count("Found {} includes in ", 0, basename(source_files[2])))
    /\ Printed(Count("Found {} function implementations in ", 0,
                     basename(source_files[2])))

\* A listed source file is missing and the run is over.
C9_WitnessMissing ==
    /\ pc = "done"
    /\ ~file[source_files[3]].exists
    /\ file[source_files[1]].exists /\ ~file[source_files[1]].utf8
    /\ LinesAbout(Between(SourcesHead, I219Head), source_files[3]) = {}

====
